---- MODULE Spec2Model ----
(***************************************************************************)
(* Model of the ttyc remote-terminal client:                               *)
(*   - the escape-sequence multiplexer of cmd/ttyc/handlers/stdfds.go      *)
(*     (handleStdin / handleCommand), and                                  *)
(*   - the protocol engine of ws/protocol.go (Redial, Run, readLoop,       *)
(*     chanLoop, watchdog, doShutdown, Close, the control operations).     *)
(* Go channels made with make(chan T) are unbuffered: a send is a          *)
(* rendezvous between the sending and the receiving goroutine.             *)
(***************************************************************************)
EXTENDS Integers, Sequences, FiniteSets, TLC

\* ------------------------------------------------------------------------
\* Bounds of the model
\* ------------------------------------------------------------------------
MaxChunkLen == 4
MaxPrefix == 2
MaxSuffix == 1
MaxRuns == 2
MaxEpochs == 2
MaxFrames == 2
MaxCtl == 1
MaxInput == 1
MaxCloseCalls == 2
MaxEvents == 3
MaxTime == 12

\* ------------------------------------------------------------------------
\* Escape-sequence multiplexer: constants (stdfds.go:19-27)
\* ------------------------------------------------------------------------
EscapeChar == 20
QuitChar == 113
DetectBaudChar == 98
CtrlTChar == 116

\* The bytes fed to the multiplexer: the trigger, three command bytes and the
\* two plain bytes 'h' and 'i'.
PlainBytes == {104, 105}
Bytes == {EscapeChar, QuitChar, DetectBaudChar, CtrlTChar} \cup PlainBytes

RECURSIVE SeqsUpTo(_, _)
SeqsUpTo(S, n) ==
    IF n = 0 THEN {<<>>}
    ELSE LET shorter == SeqsUpTo(S, n - 1)
         IN  shorter \cup {Append(s, b) : s \in {t \in shorter : Len(t) = n - 1}, b \in S}

Chunks == SeqsUpTo(Bytes, MaxChunkLen) \ {<<>>}

\* Go slices are 0-based: s[lo:hi] and s[i].
Slice(s, lo, hi) == SubSeq(s, lo + 1, hi)
At(s, i) == s[i + 1]

\* bytes.Index(input, []byte{b}): 0-based position of the first b, -1 if none.
Index(s, b) ==
    IF \E i \in 1..Len(s) : s[i] = b
    THEN (CHOOSE i \in 1..Len(s) : s[i] = b /\ \A j \in 1..(i - 1) : s[j] # b) - 1
    ELSE -1

\* handleCommand: the substitution bytes it returns and its side effects
\* (quit: a sentinel sent on errChan; baud: RequestBaudrateDetection called,
\* which enqueues one control frame, on Wi-Se only).
HandleCommand(command, wise) ==
    [ replacement |-> IF command = CtrlTChar THEN <<EscapeChar>> ELSE <<>>,
      quit        |-> IF command = QuitChar THEN 1 ELSE 0,
      baud        |-> IF command = DetectBaudChar /\ wise THEN 1 ELSE 0 ]

\* A mutant of EscapeFound: the comparison off by one, so that "not found"
\* (-1) counts as a position.
EscapeFoundOffByOne(escapePos) == escapePos >= -1

\* The test "the chunk holds an escape char" (escapePos >= 0).
EscapeFound(escapePos) == escapePos >= 0

\* The position adjustment of the pre-existing escape char after the pending
\* command has been spliced (escapePos += 1 - len(replacement)).
AdjustEscapePos(escapePos, replacement) == escapePos + 1 - Len(replacement)

\* The command byte handed to handleCommand for a trigger found before the
\* last position (command := input[escapePos]).
CommandByte(input, escapePos) == At(input, escapePos)

\* One iteration of handleStdin's loop on the chunk `chunk`, entered with
\* expectingCommand = pending. Result: the new expectingCommand, the chunks
\* sent on outChan (none or one), the command bytes handled in order, the
\* quit sentinels raised, the control frames enqueued, and whether the
\* iteration faulted (index or slice out of range: the worker panics).
HandleStdin(pending, chunk, wise) ==
    LET escapePos0 == Index(chunk, EscapeChar)
        pend == IF pending THEN HandleCommand(At(chunk, 0), wise)
                ELSE [replacement |-> <<>>, quit |-> 0, baud |-> 0]
        cmds1 == IF pending THEN <<At(chunk, 0)>> ELSE <<>>
        input == IF pending THEN pend.replacement \o Slice(chunk, 1, Len(chunk))
                 ELSE chunk
        escapePos == IF pending /\ EscapeFound(escapePos0)
                     THEN AdjustEscapePos(escapePos0, pend.replacement)
                     ELSE escapePos0
    IN  IF EscapeFound(escapePos) /\ escapePos = Len(input) - 1
        THEN [ expectingCommand |-> TRUE,
               out   |-> IF Len(input) = 1 THEN <<>>
                         ELSE << Slice(input, 0, Len(input) - 1) >>,
               cmds  |-> cmds1,
               quit  |-> pend.quit,
               baud  |-> pend.baud,
               fault |-> FALSE ]
        ELSE IF EscapeFound(escapePos)
        THEN IF escapePos < 0 \/ escapePos >= Len(input)
             THEN \* input[escapePos] (or the slices around it) is out of range
                  [ expectingCommand |-> FALSE, out |-> <<>>, cmds |-> cmds1,
                    quit |-> pend.quit, baud |-> pend.baud, fault |-> TRUE ]
             ELSE LET before  == Slice(input, 0, escapePos)
                      command == CommandByte(input, escapePos)
                      after   == Slice(input, escapePos + 2, Len(input))
                      h       == HandleCommand(command, wise)
                  IN  [ expectingCommand |-> FALSE,
                        out   |-> << before \o h.replacement \o after >>,
                        cmds  |-> Append(cmds1, command),
                        quit  |-> pend.quit + h.quit,
                        baud  |-> pend.baud + h.baud,
                        fault |-> FALSE ]
        ELSE [ expectingCommand |-> FALSE,
               out   |-> << input >>,
               cmds  |-> cmds1,
               quit  |-> pend.quit,
               baud  |-> pend.baud,
               fault |-> FALSE ]

\* ------------------------------------------------------------------------
\* Protocol engine: wire tags (protocol.go:26-43)
\* ------------------------------------------------------------------------
MsgInput == 48
MsgResizeTerminal == 49
MsgPause == 50
MsgResume == 51
MsgDetectBaudrate == 66
MsgOutput == 48
MsgSetWindowTitle == 49
MsgPreferences == 50
MsgServerPause == 83
MsgServerResume == 81

\* Frames the peer may send: output "1", server pause,
\* server resume, the window titles "1" and "2", a detected baudrate "1", a
\* malformed detected baudrate "x", and server preferences.
ServerFrames ==
    { <<MsgOutput, 49>>, <<MsgServerPause>>, <<MsgServerResume>>,
      <<MsgSetWindowTitle, 49>>, <<MsgSetWindowTitle, 50>>,
      <<MsgDetectBaudrate, 49>>, <<MsgDetectBaudrate, 120>>, <<MsgPreferences>> }

\* Chunks the escape multiplexer may forward to the input port.
InputChunks == { <<>>, <<104>> }

\* Arguments of Run: the ping interval in seconds. (Run(0) starts no watchdog:
\* its behaviours are those in which the watchdog never takes a step.)
WatchdogArgs == {5}

\* The channels of the Client made by DialAndAuth (protocol.go:86-95), and
\* those Close closes (protocol.go:160-166).
Channels == {"closeChan", "winTitle", "output", "input", "detectedBaudrate",
             "pong", "error", "toWs", "fromWs"}
ClosedByClose == {"closeChan", "winTitle", "output", "input", "error", "toWs", "fromWs"}

\* Control frames (protocol.go:334-353); the resize payload is JSON ("{").
ResizeFrame == <<MsgResizeTerminal, 123>>
PauseFrame == <<MsgPause>>
ResumeFrame == <<MsgResume>>
BaudRequestFrame == <<MsgDetectBaudrate>>

Runs == 1..MaxRuns
Chan == <<"chan", 0>>
Closer == <<"close", 0>>
Rd(r) == <<"rd", r>>
Wd(r) == <<"wd", r>>
Procs == {Chan, Closer} \cup {Rd(r) : r \in Runs} \cup {Wd(r) : r \in Runs}

\* strconv.ParseInt(string(payload), 10, 64) on the payloads of ServerFrames:
\* a non-empty string of decimal digits parses, anything else is an error.
IsDigit(b) == b >= 48 /\ b <= 57
RECURSIVE DecimalValue(_)
DecimalValue(s) ==
    IF s = <<>> THEN 0
    ELSE 10 * DecimalValue(SubSeq(s, 1, Len(s) - 1)) + (s[Len(s)] - 48)
ParseInt(s) ==
    IF s # <<>> /\ \A i \in 1..Len(s) : IsDigit(s[i])
    THEN [ok |-> TRUE, value |-> DecimalValue(s)]
    ELSE [ok |-> FALSE, value |-> 0]

VARIABLES
    \* escape multiplexer (stdfdsHandler)
    expectingCommand,   \* stdfdsHandler.expectingCommand
    wise,               \* implementation == ttyc.ImplementationWiSe
    mux,                \* the current iteration of handleStdin: what it read and did
    \* split-trigger experiment: one byte stream fed in two chunks and in one
    splitIn, split, whole,
    \* protocol engine
    c,      \* the Client: isShutdown, closed, flowControlEngaged;
            \*   flowControl: the mutex, "free", "gate" (locked by a server
            \*     pause) or "writer" (locked around a control-frame write);
            \*   shutdownFired: the current c.shutdown channel is closed;
            \*   closes: number of close() calls on each other channel;
            \*   wsOpen: the transport WsClient is open
    pc,     \* position of every goroutine
    loc,    \* locals: chData (the frame chanLoop's select took), rdData (the
            \*   message readLoop forwards, per run), wd (the watchdog's
            \*   interval and deadlines, per run)
    env,    \* callers: runs (Run calls), epoch (successful Redials), toWsSend
            \*   (a control operation blocked sending <<frame>> on toWs),
            \*   inputSend (the multiplexer blocked sending <<chunk>> on input),
            \*   and the numbers of control, input and Close calls made, of
            \*   transport failures and of Redial calls refused
    obs,    \* observation: reads (messages ReadMessage returned), titlesRead
            \*   (the window titles among them), lastWrite (the last frame
            \*   chanLoop wrote, with flowControlEngaged at the write),
            \*   titlesSeen (titles a consumer received), errs (errors a
            \*   consumer received, per epoch), and per run: timeouts (the
            \*   watchdog's calls doShutdown("server is not responding,
            \*   closing")), started (the time the watchdog started), acked
            \*   (the watchdog has received a pong)
    panic,  \* "none", or the runtime fault that ended the program
    timed,  \* TRUE: timers follow the clock; FALSE: the clock is abstracted
            \*   (any time may pass between two steps)
    now     \* the clock, in seconds

muxVars == <<expectingCommand, wise, mux>>
splitVars == <<splitIn, split, whole>>
engineVars == <<c, pc, loc, env, obs, panic, timed, now>>
vars == <<muxVars, splitVars, engineVars>>

\* ------------------------------------------------------------------------
\* Initial states
\* ------------------------------------------------------------------------
\* The multiplexer worker waiting in its select: the locals of an iteration
\* (the chunk read, what was handled and forwarded) hold nothing.
MuxSelect == [at |-> "select", pending |-> FALSE, chunk |-> <<>>, out |-> <<>>,
              cmds |-> <<>>, quit |-> 0, baud |-> 0, fault |-> FALSE]

\* NewStdFdsHandler: expectingCommand = false; nothing read yet.
MuxInit ==
    /\ expectingCommand = FALSE
    /\ mux = MuxSelect

Fresh == [expectingCommand |-> FALSE, fwd |-> <<>>, cmds |-> <<>>, quit |-> 0,
          baud |-> 0, fault |-> FALSE, fed |-> 0]

SplitIdle ==
    /\ splitIn = [P |-> <<>>, CMD |-> EscapeChar, S |-> <<>>]
    /\ split = Fresh
    /\ whole = Fresh

\* The Client as DialAndAuth returns it (protocol.go:84-109): Redial has
\* succeeded, no goroutine runs yet.
NewClient ==
    [ isShutdown |-> FALSE, closed |-> FALSE, flowControlEngaged |-> FALSE,
      flowControl |-> "free", shutdownFired |-> FALSE,
      closes |-> [ch \in Channels |-> 0], wsOpen |-> TRUE ]

NoLocals ==
    [ chData |-> <<>>,
      rdData |-> [r \in Runs |-> <<>>],
      wd |-> [r \in Runs |-> [interval |-> 0, nextPing |-> 0, nextTimeout |-> 0]] ]

NoCalls ==
    [ runs |-> 0, epoch |-> 1, toWsSend |-> <<>>, inputSend |-> <<>>,
      ctlCalls |-> 0, inputCalls |-> 0, closeCalls |-> 0, fails |-> 0,
      refused |-> 0 ]

NoWrite == [kind |-> "none", engaged |-> FALSE]

NoObs ==
    [ reads |-> 0, titlesRead |-> <<>>, lastWrite |-> NoWrite, titlesSeen |-> <<>>,
      errs |-> [e \in 1..MaxEpochs |-> 0],
      timeouts |-> [r \in Runs |-> 0], started |-> [r \in Runs |-> 0],
      acked |-> [r \in Runs |-> FALSE] ]

EngineInit ==
    /\ c = NewClient
    /\ pc = [p \in Procs |-> "idle"]
    /\ loc = NoLocals
    /\ env = NoCalls
    /\ obs = NoObs
    /\ panic = "none"
    /\ timed = FALSE
    /\ now = 0

\* ------------------------------------------------------------------------
\* Escape multiplexer: one iteration of handleStdin's loop
\* ------------------------------------------------------------------------
\* The select takes a chunk from inChan and the iteration handles it, up to
\* the send on outChan (or the continue, or the fault).
StdinChunk(chunk) ==
    /\ mux.at = "select"
    /\ LET r == HandleStdin(expectingCommand, chunk, wise)
       IN  /\ expectingCommand' = r.expectingCommand
           /\ mux' = [at |-> "send", pending |-> expectingCommand, chunk |-> chunk,
                      out |-> r.out, cmds |-> r.cmds, quit |-> r.quit,
                      baud |-> r.baud, fault |-> r.fault]
    /\ UNCHANGED <<wise, splitVars, engineVars>>

\* outChan <- input completes (or the iteration ended with continue) and the
\* loop goes back to its select. A faulted worker is gone.
StdinForward ==
    /\ mux.at = "send"
    /\ ~mux.fault
    /\ mux' = MuxSelect
    /\ UNCHANGED <<expectingCommand, wise, splitVars, engineVars>>

NextMux ==
    \/ \E chunk \in Chunks : StdinChunk(chunk)
    \/ StdinForward

InitMux == MuxInit /\ wise \in BOOLEAN /\ SplitIdle /\ EngineInit

SpecMux == InitMux /\ [][NextMux]_vars

\* ------------------------------------------------------------------------
\* Split-trigger experiment: two multiplexers, both starting in Normal state,
\* read the same bytes P + TRIGGER + CMD + S; `split` reads them as the chunks
\* P + TRIGGER and CMD + S, `whole` as one chunk.
\* ------------------------------------------------------------------------
RECURSIVE Flatten(_)
Flatten(ss) == IF ss = <<>> THEN <<>> ELSE Head(ss) \o Flatten(Tail(ss))

\* A multiplexer's state after one more iteration of handleStdin on `chunk`.
Feed(m, chunk, w) ==
    LET r == HandleStdin(m.expectingCommand, chunk, w)
    IN  [ expectingCommand |-> r.expectingCommand,
          fwd   |-> m.fwd \o r.out,
          cmds  |-> m.cmds \o r.cmds,
          quit  |-> m.quit + r.quit,
          baud  |-> m.baud + r.baud,
          fault |-> r.fault,
          fed   |-> m.fed + 1 ]

SplitFirst ==
    /\ split.fed = 0
    /\ split' = Feed(split, Append(splitIn.P, EscapeChar), wise)
    /\ UNCHANGED <<muxVars, splitIn, whole, engineVars>>

SplitSecond ==
    /\ split.fed = 1
    /\ ~split.fault
    /\ split' = Feed(split, <<splitIn.CMD>> \o splitIn.S, wise)
    /\ UNCHANGED <<muxVars, splitIn, whole, engineVars>>

WholeOnce ==
    /\ whole.fed = 0
    /\ whole' = Feed(whole, Append(splitIn.P, EscapeChar) \o <<splitIn.CMD>> \o splitIn.S, wise)
    /\ UNCHANGED <<muxVars, splitIn, split, engineVars>>

NextSplit == SplitFirst \/ SplitSecond \/ WholeOnce

InitSplit ==
    /\ MuxInit
    /\ wise \in BOOLEAN
    /\ splitIn \in [P : SeqsUpTo(Bytes \ {EscapeChar}, MaxPrefix), CMD : Bytes,
                    S : SeqsUpTo(Bytes, MaxSuffix)]
    /\ split = Fresh
    /\ whole = Fresh
    /\ EngineInit

SpecSplit == InitSplit /\ [][NextSplit]_vars

\* ------------------------------------------------------------------------
\* Protocol engine: helpers
\* ------------------------------------------------------------------------
Closed(ch) == c.closes[ch] > 0

\* The loop condition of readLoop, chanLoop and watchdog
\* (for !c.closed && !c.isShutdown).
LoopCondition == ~c.closed /\ ~c.isShutdown

\* doShutdown's argument: Close passes nil, the workers pass the error of
\* their read, write or ping, or the watchdog's timeout error.
HasError(p) == p # Closer

\* The environment's events so far: messages the server sent, control
\* operations and input chunks the application submitted, calls of Close,
\* redials (successful or refused), calls of Run after the first, and failures
\* of the transport.
Events ==
    obs.reads + env.ctlCalls + env.inputCalls + env.closeCalls
        + env.fails + (env.epoch - 1) + env.refused
        + (IF env.runs > 1 THEN env.runs - 1 ELSE 0)

\* Where doShutdown returns to: Close goes on, the workers return.
AfterShutdown(p) == IF p = Closer THEN "closeChk" ELSE "done"

\* A mutant of Dispatch: the server-pause tag is not recognised.
DispatchNoPause(data) ==
    IF Len(data) <= 0 THEN "loop"
    ELSE IF data[1] = MsgOutput THEN "out"
    ELSE IF data[1] = MsgServerResume THEN "resume"
    ELSE IF data[1] = MsgSetWindowTitle THEN "titleDrain"
    ELSE IF data[1] = MsgDetectBaudrate THEN "baudDrain"
    ELSE "loop"

\* chanLoop's switch on the tag of a message from the reader: the position
\* of the case that handles it (an empty message and an unknown tag go back
\* to the loop).
Dispatch(data) ==
    IF Len(data) <= 0 THEN "loop"
    ELSE IF data[1] = MsgOutput THEN "out"
    ELSE IF data[1] = MsgServerPause THEN "pause"
    ELSE IF data[1] = MsgServerResume THEN "resume"
    ELSE IF data[1] = MsgSetWindowTitle THEN "titleDrain"
    ELSE IF data[1] = MsgDetectBaudrate THEN "baudDrain"
    ELSE "loop"

\* A runtime fault (a panic nobody recovers, or a fatal error) ends the program
\* and every goroutine with it.
Crashed == [p \in Procs |-> "crashed"]

\* A timer channel time.After(deadline - now) is ready.
TimerReady(deadline) == ~timed \/ now >= deadline

\* ------------------------------------------------------------------------
\* Redial and Run
\* ------------------------------------------------------------------------
\* A mutant of RedialAllowed: the test of c.closed is missing.
RedialAlways == TRUE

\* Redial's test: if c.closed { return fmt.Errorf(...) }
RedialAllowed == ~c.closed

\* Redial. On a closed Client it returns an error and changes nothing
\* (env.refused counts these calls). Otherwise, the dial and the
\* authentication succeeding: a new transport, a new shutdown channel,
\* isShutdown = false. (When the dial fails it returns an error and changes
\* nothing.)
Redial ==
    /\ pc[Chan] \in {"idle", "done"}
    /\ Events < MaxEvents
    /\ IF RedialAllowed
       THEN /\ env.epoch < MaxEpochs
            /\ c' = [c EXCEPT !.wsOpen = TRUE, !.shutdownFired = FALSE,
                              !.isShutdown = FALSE]
            /\ env' = [env EXCEPT !.epoch = @ + 1]
       ELSE /\ env' = [env EXCEPT !.refused = @ + 1]
            /\ UNCHANGED c
    /\ UNCHANGED <<pc, loc, obs, panic, timed, now, muxVars, splitVars>>

\* Run(watchdog): starts readLoop, starts the watchdog when watchdog > 0, and
\* enters chanLoop on the calling thread.
Run(watchdog) ==
    /\ pc[Chan] \in {"idle", "done"}
    /\ env.runs < MaxRuns
    /\ env.runs = 0 \/ Events < MaxEvents
    /\ LET r == env.runs + 1
       IN  /\ env' = [env EXCEPT !.runs = r]
           /\ pc' = [pc EXCEPT ![Chan] = "loop", ![Rd(r)] = "loop",
                               ![Wd(r)] = IF watchdog > 0 THEN "start" ELSE "idle"]
           /\ loc' = [loc EXCEPT !.wd[r].interval = watchdog]
    /\ UNCHANGED <<c, obs, panic, timed, now, muxVars, splitVars>>

\* The connection to the peer breaks: from now on reads and writes on the
\* transport return an error.
TransportFails ==
    /\ panic = "none"
    /\ c.wsOpen
    /\ Events < MaxEvents
    /\ c' = [c EXCEPT !.wsOpen = FALSE]
    /\ env' = [env EXCEPT !.fails = @ + 1]
    /\ UNCHANGED <<pc, loc, obs, panic, timed, now, muxVars, splitVars>>

\* ------------------------------------------------------------------------
\* readLoop (one goroutine per Run)
\* ------------------------------------------------------------------------
RdLoop(r) ==
    /\ pc[Rd(r)] = "loop"
    /\ pc' = [pc EXCEPT ![Rd(r)] = IF LoopCondition THEN "read" ELSE "done"]
    /\ UNCHANGED <<c, loc, env, obs, panic, timed, now, muxVars, splitVars>>

\* ReadMessage returns a message of the peer.
RdMessage(r, data) ==
    /\ pc[Rd(r)] = "read"
    /\ c.wsOpen
    /\ obs.reads < MaxFrames
    /\ Events < MaxEvents
    /\ loc' = [loc EXCEPT !.rdData[r] = data]
    /\ obs' = [obs EXCEPT !.reads = @ + 1,
                          !.titlesRead = IF data # <<>> /\ data[1] = MsgSetWindowTitle
                                         THEN Append(@, Tail(data)) ELSE @]
    /\ pc' = [pc EXCEPT ![Rd(r)] = "send"]
    /\ UNCHANGED <<c, env, panic, timed, now, muxVars, splitVars>>

\* ReadMessage returns an error (the transport is down or closed):
\* doShutdown(err), then return.
RdError(r) ==
    /\ pc[Rd(r)] = "read"
    /\ ~c.wsOpen
    /\ pc' = [pc EXCEPT ![Rd(r)] = "dsCheck"]
    /\ UNCHANGED <<c, loc, env, obs, panic, timed, now, muxVars, splitVars>>

\* Inside ReadMessage a pong of the peer runs the pong handler Run has set,
\* which sends on c.pong (c.pong <- true).
RdPong(r) ==
    /\ pc[Rd(r)] = "read"
    /\ c.wsOpen
    /\ \E q \in 1..env.runs : loc.wd[q].interval > 0
    /\ pc' = [pc EXCEPT ![Rd(r)] = "pong"]
    /\ UNCHANGED <<c, loc, env, obs, panic, timed, now, muxVars, splitVars>>

\* ------------------------------------------------------------------------
\* chanLoop (on the thread that called Run)
\* ------------------------------------------------------------------------
ChLoop ==
    /\ pc[Chan] = "loop"
    /\ pc' = [pc EXCEPT ![Chan] = IF LoopCondition THEN "select" ELSE "done"]
    /\ loc' = [loc EXCEPT !.chData = <<>>]
    /\ UNCHANGED <<c, env, obs, panic, timed, now, muxVars, splitVars>>

\* case data := <-c.fromWs, a reader handing over its message
\* (c.fromWs <- data), followed by the switch on the tag.
ChFromWs(r) ==
    /\ pc[Chan] = "select"
    /\ pc[Rd(r)] = "send"
    /\ ~Closed("fromWs")
    /\ loc' = [loc EXCEPT !.chData = loc.rdData[r], !.rdData[r] = <<>>]
    /\ pc' = [pc EXCEPT ![Chan] = Dispatch(loc.rdData[r]), ![Rd(r)] = "loop"]
    /\ UNCHANGED <<c, env, obs, panic, timed, now, muxVars, splitVars>>

\* case data := <-c.toWs, a control operation handing over its frame.
ChToWs ==
    /\ pc[Chan] = "select"
    /\ env.toWsSend # <<>>
    /\ ~Closed("toWs")
    /\ loc' = [loc EXCEPT !.chData = env.toWsSend[1]]
    /\ env' = [env EXCEPT !.toWsSend = <<>>]
    /\ pc' = [pc EXCEPT ![Chan] = IF Len(env.toWsSend[1]) = 0 THEN "loop" ELSE "wLock"]
    /\ UNCHANGED <<c, obs, panic, timed, now, muxVars, splitVars>>

\* case data := <-c.input, the multiplexer handing over a chunk.
ChInput ==
    /\ pc[Chan] = "select"
    /\ env.inputSend # <<>>
    /\ ~Closed("input")
    /\ loc' = [loc EXCEPT !.chData = env.inputSend[1]]
    /\ env' = [env EXCEPT !.inputSend = <<>>]
    /\ pc' = [pc EXCEPT ![Chan] = IF Len(env.inputSend[1]) = 0 THEN "loop" ELSE "inWrite"]
    /\ UNCHANGED <<c, obs, panic, timed, now, muxVars, splitVars>>

\* A case on a channel Close has closed: fromWs, toWs and input yield an
\* empty message (continue), closeChan has an empty body.
ChCloseChan ==
    /\ pc[Chan] = "select"
    /\ \E ch \in {"fromWs", "toWs", "input", "closeChan"} : Closed(ch)
    /\ pc' = [pc EXCEPT ![Chan] = "loop"]
    /\ UNCHANGED <<c, loc, env, obs, panic, timed, now, muxVars, splitVars>>

\* case <-c.shutdown (empty body).
ChShutdown ==
    /\ pc[Chan] = "select"
    /\ c.shutdownFired
    /\ pc' = [pc EXCEPT ![Chan] = "loop"]
    /\ UNCHANGED <<c, loc, env, obs, panic, timed, now, muxVars, splitVars>>

\* c.output <- data[1:], a consumer receiving from Output.
ChOutput ==
    /\ pc[Chan] = "out"
    /\ ~Closed("output")
    /\ pc' = [pc EXCEPT ![Chan] = "loop"]
    /\ UNCHANGED <<c, loc, env, obs, panic, timed, now, muxVars, splitVars>>

\* case MsgServerPause: if !c.flowControlEngaged { c.flowControlEngaged = true ...
ChPause ==
    /\ pc[Chan] = "pause"
    /\ IF ~c.flowControlEngaged
       THEN /\ c' = [c EXCEPT !.flowControlEngaged = TRUE]
            /\ pc' = [pc EXCEPT ![Chan] = "pauseLock"]
       ELSE /\ pc' = [pc EXCEPT ![Chan] = "loop"]
            /\ UNCHANGED c
    /\ UNCHANGED <<loc, env, obs, panic, timed, now, muxVars, splitVars>>

\* ... c.flowControl.Lock() }
ChPauseLock ==
    /\ pc[Chan] = "pauseLock"
    /\ c.flowControl = "free"
    /\ c' = [c EXCEPT !.flowControl = "gate"]
    /\ pc' = [pc EXCEPT ![Chan] = "loop"]
    /\ UNCHANGED <<loc, env, obs, panic, timed, now, muxVars, splitVars>>

\* case MsgServerResume: if c.flowControlEngaged { c.flowControlEngaged = false ...
ChResume ==
    /\ pc[Chan] = "resume"
    /\ IF c.flowControlEngaged
       THEN /\ c' = [c EXCEPT !.flowControlEngaged = FALSE]
            /\ pc' = [pc EXCEPT ![Chan] = "resumeUnlock"]
       ELSE /\ pc' = [pc EXCEPT ![Chan] = "loop"]
            /\ UNCHANGED c
    /\ UNCHANGED <<loc, env, obs, panic, timed, now, muxVars, splitVars>>

\* ... c.flowControl.Unlock() }
ChResumeUnlock ==
    /\ pc[Chan] = "resumeUnlock"
    /\ IF c.flowControl = "free"
       THEN /\ panic' = "unlock of unlocked mutex"
            /\ pc' = Crashed
            /\ UNCHANGED c
       ELSE /\ c' = [c EXCEPT !.flowControl = "free"]
            /\ pc' = [pc EXCEPT ![Chan] = "loop"]
            /\ UNCHANGED panic
    /\ UNCHANGED <<loc, env, obs, timed, now, muxVars, splitVars>>

\* case MsgSetWindowTitle: the loop that empties c.winTitle. The channel is
\* unbuffered and chanLoop is its only sender, so the receive finds nothing
\* and the default case leaves the loop; on a closed channel the receive
\* always succeeds and the loop does not end.
ChTitleDrain ==
    /\ pc[Chan] = "titleDrain"
    /\ ~Closed("winTitle")
    /\ pc' = [pc EXCEPT ![Chan] = "titleSend"]
    /\ UNCHANGED <<c, loc, env, obs, panic, timed, now, muxVars, splitVars>>

\* c.winTitle <- data[1:], a consumer receiving from WinTitle.
ChTitleSend ==
    /\ pc[Chan] = "titleSend"
    /\ ~Closed("winTitle")
    /\ obs' = [obs EXCEPT !.titlesSeen = Append(@, Tail(loc.chData))]
    /\ pc' = [pc EXCEPT ![Chan] = "loop"]
    /\ UNCHANGED <<c, loc, env, panic, timed, now, muxVars, splitVars>>

\* case MsgDetectBaudrate: the loop that empties c.detectedBaudrate (which
\* finds nothing, as for the title), then ParseInt; a malformed payload is
\* reported and the frame dropped.
ChBaudDrain ==
    /\ pc[Chan] = "baudDrain"
    /\ pc' = [pc EXCEPT ![Chan] = IF ParseInt(Tail(loc.chData)).ok THEN "baudSend"
                                  ELSE "loop"]
    /\ UNCHANGED <<c, loc, env, obs, panic, timed, now, muxVars, splitVars>>

\* c.detectedBaudrate <- i, a consumer receiving from DetectedBaudrate.
ChBaudSend ==
    /\ pc[Chan] = "baudSend"
    /\ pc' = [pc EXCEPT ![Chan] = "loop"]
    /\ UNCHANGED <<c, loc, env, obs, panic, timed, now, muxVars, splitVars>>

\* case data := <-c.toWs: c.flowControl.Lock()
ChWriteLock ==
    /\ pc[Chan] = "wLock"
    /\ c.flowControl = "free"
    /\ c' = [c EXCEPT !.flowControl = "writer"]
    /\ pc' = [pc EXCEPT ![Chan] = "wWrite"]
    /\ UNCHANGED <<loc, env, obs, panic, timed, now, muxVars, splitVars>>

\* ... WriteMessage(data); c.flowControl.Unlock(); on an error (the transport
\* is down or closed) doShutdown(err) and return.
ChWrite ==
    /\ pc[Chan] = "wWrite"
    /\ IF c.flowControl = "free"
       THEN /\ panic' = "unlock of unlocked mutex"
            /\ pc' = Crashed
            /\ UNCHANGED c
       ELSE /\ c' = [c EXCEPT !.flowControl = "free"]
            /\ pc' = [pc EXCEPT ![Chan] = IF c.wsOpen THEN "loop" ELSE "dsCheck"]
            /\ UNCHANGED panic
    /\ obs' = [obs EXCEPT !.lastWrite =
                   IF c.wsOpen THEN [kind |-> "control", engaged |-> c.flowControlEngaged]
                   ELSE @]
    /\ UNCHANGED <<loc, env, timed, now, muxVars, splitVars>>

\* case data := <-c.input: WriteMessage(append([]byte{MsgInput}, data...));
\* on an error doShutdown(err) and return.
ChInputWrite ==
    /\ pc[Chan] = "inWrite"
    /\ pc' = [pc EXCEPT ![Chan] = IF c.wsOpen THEN "loop" ELSE "dsCheck"]
    /\ obs' = [obs EXCEPT !.lastWrite =
                   IF c.wsOpen THEN [kind |-> "input", engaged |-> c.flowControlEngaged]
                   ELSE @]
    /\ UNCHANGED <<c, loc, env, panic, timed, now, muxVars, splitVars>>

\* ------------------------------------------------------------------------
\* doShutdown(err), called by readLoop, chanLoop, watchdog and Close. No lock
\* protects it: its statements interleave with those of the other goroutines.
\* ------------------------------------------------------------------------
\* if !c.isShutdown {
DsCheck(p) ==
    /\ pc[p] = "dsCheck"
    /\ pc' = [pc EXCEPT ![p] = IF ~c.isShutdown THEN "dsClose" ELSE AfterShutdown(p)]
    /\ UNCHANGED <<c, loc, env, obs, panic, timed, now, muxVars, splitVars>>

\* close(c.shutdown); c.isShutdown = true. Closing a closed channel panics.
DsClose(p) ==
    /\ pc[p] = "dsClose"
    /\ IF c.shutdownFired
       THEN /\ panic' = "close of closed channel: shutdown"
            /\ pc' = Crashed
            /\ UNCHANGED c
       ELSE /\ c' = [c EXCEPT !.shutdownFired = TRUE, !.isShutdown = TRUE]
            /\ pc' = [pc EXCEPT ![p] = "dsGate"]
            /\ UNCHANGED panic
    /\ UNCHANGED <<loc, env, obs, timed, now, muxVars, splitVars>>

\* if c.flowControlEngaged { c.flowControlEngaged = false ...
DsGate(p) ==
    /\ pc[p] = "dsGate"
    /\ IF c.flowControlEngaged
       THEN /\ c' = [c EXCEPT !.flowControlEngaged = FALSE]
            /\ pc' = [pc EXCEPT ![p] = "dsUnlock"]
       ELSE /\ pc' = [pc EXCEPT ![p] = IF HasError(p) THEN "dsErr" ELSE AfterShutdown(p)]
            /\ UNCHANGED c
    /\ UNCHANGED <<loc, env, obs, panic, timed, now, muxVars, splitVars>>

\* ... c.flowControl.Unlock() }. Unlocking an unlocked mutex is a fatal error.
DsUnlock(p) ==
    /\ pc[p] = "dsUnlock"
    /\ IF c.flowControl = "free"
       THEN /\ panic' = "unlock of unlocked mutex"
            /\ pc' = Crashed
            /\ UNCHANGED c
       ELSE /\ c' = [c EXCEPT !.flowControl = "free"]
            /\ pc' = [pc EXCEPT ![p] = IF HasError(p) THEN "dsErr" ELSE AfterShutdown(p)]
            /\ UNCHANGED panic
    /\ UNCHANGED <<loc, env, obs, timed, now, muxVars, splitVars>>

\* if err != nil { c.error <- err }, a consumer receiving from Error.
DsError(p) ==
    /\ pc[p] = "dsErr"
    /\ ~Closed("error")
    /\ obs' = [obs EXCEPT !.errs[env.epoch] = @ + 1]
    /\ pc' = [pc EXCEPT ![p] = AfterShutdown(p)]
    /\ UNCHANGED <<c, loc, env, panic, timed, now, muxVars, splitVars>>

\* ------------------------------------------------------------------------
\* Close
\* ------------------------------------------------------------------------
\* c.doShutdown(nil)
CloseCall ==
    /\ pc[Closer] = "idle"
    /\ env.closeCalls < MaxCloseCalls
    /\ Events < MaxEvents
    /\ env' = [env EXCEPT !.closeCalls = @ + 1]
    /\ pc' = [pc EXCEPT ![Closer] = "dsCheck"]
    /\ UNCHANGED <<c, loc, obs, panic, timed, now, muxVars, splitVars>>

\* if c.closed { return nil }; c.closed = true
CloseCheck ==
    /\ pc[Closer] = "closeChk"
    /\ IF c.closed
       THEN /\ pc' = [pc EXCEPT ![Closer] = "idle"]
            /\ UNCHANGED c
       ELSE /\ c' = [c EXCEPT !.closed = TRUE]
            /\ pc' = [pc EXCEPT ![Closer] = "closePorts"]
    /\ UNCHANGED <<loc, env, obs, panic, timed, now, muxVars, splitVars>>

\* close(c.closeChan) ... close(c.fromWs). Closing a closed channel panics.
ClosePorts ==
    /\ pc[Closer] = "closePorts"
    /\ IF \E ch \in ClosedByClose : Closed(ch)
       THEN /\ panic' = "close of closed channel"
            /\ pc' = Crashed
       ELSE /\ pc' = [pc EXCEPT ![Closer] = "softClose"]
            /\ UNCHANGED panic
    /\ c' = [c EXCEPT !.closes = [ch \in Channels |->
                                     IF ch \in ClosedByClose THEN @[ch] + 1 ELSE @[ch]]]
    /\ UNCHANGED <<loc, env, obs, timed, now, muxVars, splitVars>>

\* c.SoftClose(): an error unless c.isShutdown, else c.WsClient.Close().
CloseTransport ==
    /\ pc[Closer] = "softClose"
    /\ c' = [c EXCEPT !.wsOpen = IF c.isShutdown THEN FALSE ELSE @]
    /\ pc' = [pc EXCEPT ![Closer] = "idle"]
    /\ UNCHANGED <<loc, env, obs, panic, timed, now, muxVars, splitVars>>

\* ------------------------------------------------------------------------
\* Sends on the channels Close closes
\* ------------------------------------------------------------------------
\* A goroutine sending (or blocked in a send) on a channel that is closed
\* panics: readLoop on fromWs, chanLoop on output and winTitle, doShutdown on
\* error, a control operation on toWs, the multiplexer on input.
SendOnClosed ==
    /\ \/ \E r \in Runs : pc[Rd(r)] = "send" /\ Closed("fromWs")
       \/ pc[Chan] = "out" /\ Closed("output")
       \/ pc[Chan] = "titleSend" /\ Closed("winTitle")
       \/ \E p \in Procs : pc[p] = "dsErr" /\ Closed("error")
       \/ env.toWsSend # <<>> /\ Closed("toWs")
       \/ env.inputSend # <<>> /\ Closed("input")
    /\ panic' = "send on closed channel"
    /\ pc' = Crashed
    /\ UNCHANGED <<c, loc, env, obs, timed, now, muxVars, splitVars>>

\* ------------------------------------------------------------------------
\* Control operations and user input: each is a send on an unbuffered channel
\* ------------------------------------------------------------------------
ControlOp(frame) ==
    /\ panic = "none"
    /\ env.toWsSend = <<>>
    /\ env.ctlCalls < MaxCtl
    /\ Events < MaxEvents
    /\ env' = [env EXCEPT !.toWsSend = <<frame>>, !.ctlCalls = @ + 1]
    /\ UNCHANGED <<c, pc, loc, obs, panic, timed, now, muxVars, splitVars>>

ResizeTerminal == ControlOp(ResizeFrame)
Pause == ControlOp(PauseFrame)
Resume == ControlOp(ResumeFrame)
RequestBaudrateDetection == ControlOp(BaudRequestFrame)

\* handleStdin's outChan <- input, outChan being the Client's Input.
InputChunk(chunk) ==
    /\ panic = "none"
    /\ env.inputSend = <<>>
    /\ env.inputCalls < MaxInput
    /\ Events < MaxEvents
    /\ env' = [env EXCEPT !.inputSend = <<chunk>>, !.inputCalls = @ + 1]
    /\ UNCHANGED <<c, pc, loc, obs, panic, timed, now, muxVars, splitVars>>

\* ------------------------------------------------------------------------
\* watchdog(interval) (one goroutine per Run with watchdog > 0)
\* ------------------------------------------------------------------------
PingDuration(r) == loc.wd[r].interval

\* A mutant of TimeoutDuration: one second more of grace.
TimeoutDurationLate(r) == loc.wd[r].interval + 2

TimeoutDuration(r) == loc.wd[r].interval + 1

\* nextPing := now + pingDuration; nextTimeout := now + timeoutDuration + pingDuration
WdStart(r) ==
    /\ pc[Wd(r)] = "start"
    /\ loc' = [loc EXCEPT !.wd[r].nextPing = now + PingDuration(r),
                          !.wd[r].nextTimeout = now + TimeoutDuration(r) + PingDuration(r)]
    /\ pc' = [pc EXCEPT ![Wd(r)] = "loop"]
    /\ obs' = [obs EXCEPT !.started[r] = now]
    /\ UNCHANGED <<c, env, panic, timed, now, muxVars, splitVars>>

WdLoop(r) ==
    /\ pc[Wd(r)] = "loop"
    /\ pc' = [pc EXCEPT ![Wd(r)] = IF LoopCondition THEN "select" ELSE "done"]
    /\ UNCHANGED <<c, loc, env, obs, panic, timed, now, muxVars, splitVars>>

\* case <-time.After(nextPing.Sub(now)): write a ping; on an error (the
\* transport is down or closed) doShutdown(err) and return, else
\* nextPing = now + pingDuration.
WdPing(r) ==
    /\ pc[Wd(r)] = "select"
    /\ TimerReady(loc.wd[r].nextPing)
    /\ IF c.wsOpen
       THEN /\ loc' = [loc EXCEPT !.wd[r].nextPing = now + PingDuration(r)]
            /\ pc' = [pc EXCEPT ![Wd(r)] = "loop"]
       ELSE /\ pc' = [pc EXCEPT ![Wd(r)] = "dsCheck"]
            /\ UNCHANGED loc
    /\ UNCHANGED <<c, env, obs, panic, timed, now, muxVars, splitVars>>

\* case <-time.After(nextTimeout.Sub(now)):
\* doShutdown("server is not responding, closing") and return.
WdTimeout(r) ==
    /\ pc[Wd(r)] = "select"
    /\ TimerReady(loc.wd[r].nextTimeout)
    /\ pc' = [pc EXCEPT ![Wd(r)] = "dsCheck"]
    /\ obs' = [obs EXCEPT !.timeouts[r] = @ + 1]
    /\ UNCHANGED <<c, loc, env, panic, timed, now, muxVars, splitVars>>

\* case <-c.pong, a pong handler handing over: nextTimeout = now + timeoutDuration.
WdPong(r, q) ==
    /\ pc[Wd(r)] = "select"
    /\ pc[Rd(q)] = "pong"
    /\ loc' = [loc EXCEPT !.wd[r].nextTimeout = now + TimeoutDuration(r)]
    /\ pc' = [pc EXCEPT ![Wd(r)] = "loop", ![Rd(q)] = "read"]
    /\ obs' = [obs EXCEPT !.acked[r] = TRUE]
    /\ UNCHANGED <<c, env, panic, timed, now, muxVars, splitVars>>

\* case <-c.closeChan (empty body).
WdCloseChan(r) ==
    /\ pc[Wd(r)] = "select"
    /\ Closed("closeChan")
    /\ pc' = [pc EXCEPT ![Wd(r)] = "loop"]
    /\ UNCHANGED <<c, loc, env, obs, panic, timed, now, muxVars, splitVars>>

\* case <-c.shutdown: return.
WdShutdown(r) ==
    /\ pc[Wd(r)] = "select"
    /\ c.shutdownFired
    /\ pc' = [pc EXCEPT ![Wd(r)] = "done"]
    /\ UNCHANGED <<c, loc, env, obs, panic, timed, now, muxVars, splitVars>>

\* One second passes while a watchdog waits in its select (the clock is read
\* by the watchdogs only). A timer that is due fires before the clock moves on,
\* and the statements between two selects take no time.
Tick ==
    /\ timed
    /\ panic = "none"
    /\ \E r \in Runs : pc[Wd(r)] = "select"
    /\ now < MaxTime
    /\ \A r \in Runs :
          \/ pc[Wd(r)] \notin {"start", "loop", "select"}
          \/ /\ pc[Wd(r)] = "select"
             /\ now < loc.wd[r].nextPing
             /\ now < loc.wd[r].nextTimeout
    /\ now' = now + 1
    /\ UNCHANGED <<c, pc, loc, env, obs, panic, timed, muxVars, splitVars>>

\* ------------------------------------------------------------------------
\* The protocol engine
\* ------------------------------------------------------------------------
Next ==
    \/ Redial
    \/ \E w \in WatchdogArgs : Run(w)
    \/ \E r \in Runs : RdLoop(r)
    \/ \E r \in Runs, data \in ServerFrames : RdMessage(r, data)
    \/ \E r \in Runs : RdError(r)
    \/ TransportFails
    \/ \E r \in Runs : RdPong(r)
    \/ ChLoop
    \/ \E r \in Runs : ChFromWs(r)
    \/ ChToWs
    \/ ChInput
    \/ ChCloseChan
    \/ ChShutdown
    \/ ChOutput
    \/ ChPause
    \/ ChPauseLock
    \/ ChResume
    \/ ChResumeUnlock
    \/ ChTitleDrain
    \/ ChTitleSend
    \/ ChBaudDrain
    \/ ChBaudSend
    \/ ChWriteLock
    \/ ChWrite
    \/ ChInputWrite
    \/ \E p \in Procs : DsCheck(p)
    \/ \E p \in Procs : DsClose(p)
    \/ \E p \in Procs : DsGate(p)
    \/ \E p \in Procs : DsUnlock(p)
    \/ \E p \in Procs : DsError(p)
    \/ CloseCall
    \/ CloseCheck
    \/ ClosePorts
    \/ CloseTransport
    \/ SendOnClosed
    \/ ResizeTerminal
    \/ Pause
    \/ Resume
    \/ RequestBaudrateDetection
    \/ \E chunk \in InputChunks : InputChunk(chunk)
    \/ \E r \in Runs : WdStart(r)
    \/ \E r \in Runs : WdLoop(r)
    \/ \E r \in Runs : WdPing(r)
    \/ \E r \in Runs : WdTimeout(r)
    \/ \E r, q \in Runs : WdPong(r, q)
    \/ \E r \in Runs : WdCloseChan(r)
    \/ \E r \in Runs : WdShutdown(r)

Init == MuxInit /\ wise = FALSE /\ SplitIdle /\ EngineInit

Spec == Init /\ [][Next]_vars

\* ------------------------------------------------------------------------
\* The watchdog against the clock: the engine with its timers following the
\* clock, a peer that sends pongs and server-pause frames only, and an
\* application that calls Run once and Close.
\* ------------------------------------------------------------------------
InitWatchdog ==
    /\ MuxInit /\ wise = FALSE /\ SplitIdle
    /\ c = NewClient
    /\ pc = [p \in Procs |-> "idle"]
    /\ loc = NoLocals
    /\ env = NoCalls
    /\ obs = NoObs
    /\ panic = "none"
    /\ timed = TRUE
    /\ now = 0

NextWatchdog ==
    \/ \E w \in WatchdogArgs : env.runs = 0 /\ Run(w)
    \/ \E r \in Runs : RdLoop(r)
    \/ \E r \in Runs : RdMessage(r, <<MsgServerPause>>)
    \/ \E r \in Runs : RdError(r)
    \/ TransportFails
    \/ \E r \in Runs : RdPong(r)
    \/ ChLoop
    \/ \E r \in Runs : ChFromWs(r)
    \/ ChCloseChan
    \/ ChShutdown
    \/ ChPause
    \/ ChPauseLock
    \/ \E p \in Procs : DsCheck(p)
    \/ \E p \in Procs : DsClose(p)
    \/ \E p \in Procs : DsGate(p)
    \/ \E p \in Procs : DsUnlock(p)
    \/ \E p \in Procs : DsError(p)
    \/ CloseCall
    \/ CloseCheck
    \/ ClosePorts
    \/ CloseTransport
    \/ SendOnClosed
    \/ \E r \in Runs : WdStart(r)
    \/ \E r \in Runs : WdLoop(r)
    \/ \E r \in Runs : WdPing(r)
    \/ \E r \in Runs : WdTimeout(r)
    \/ \E r, q \in Runs : WdPong(r, q)
    \/ \E r \in Runs : WdCloseChan(r)
    \/ \E r \in Runs : WdShutdown(r)
    \/ Tick

SpecWatchdog == InitWatchdog /\ [][NextWatchdog]_vars

\* ------------------------------------------------------------------------
\* The life cycle of a Client: an application that calls Redial and Close in
\* any order and Run once, a transport that can fail and a silent peer; the
\* reader, chanLoop and the watchdog run as in Spec.
\* ------------------------------------------------------------------------
NextLifecycle ==
    \/ Redial
    \/ \E w \in WatchdogArgs : env.runs = 0 /\ Run(w)
    \/ \E r \in Runs : RdLoop(r)
    \/ \E r \in Runs : RdError(r)
    \/ TransportFails
    \/ ChLoop
    \/ ChCloseChan
    \/ ChShutdown
    \/ \E p \in Procs : DsCheck(p)
    \/ \E p \in Procs : DsClose(p)
    \/ \E p \in Procs : DsGate(p)
    \/ \E p \in Procs : DsError(p)
    \/ CloseCall
    \/ CloseCheck
    \/ ClosePorts
    \/ CloseTransport
    \/ SendOnClosed
    \/ \E r \in Runs : WdStart(r)
    \/ \E r \in Runs : WdLoop(r)
    \/ \E r \in Runs : WdPing(r)
    \/ \E r \in Runs : WdTimeout(r)
    \/ \E r \in Runs : WdCloseChan(r)
    \/ \E r \in Runs : WdShutdown(r)

SpecLifecycle == Init /\ [][NextLifecycle]_vars

\* ------------------------------------------------------------------------
\* The engine with nobody receiving from WinTitle and DetectedBaudrate: the
\* reader and chanLoop of one Run, every frame of the peer, consumers on
\* Output only, and no shutdown. Every step that can be taken is taken
\* eventually.
\* ------------------------------------------------------------------------
NextNoConsumer ==
    \/ \E w \in WatchdogArgs : env.runs = 0 /\ Run(w)
    \/ \E r \in Runs : RdLoop(r)
    \/ \E r \in Runs, data \in ServerFrames : RdMessage(r, data)
    \/ ChLoop
    \/ \E r \in Runs : ChFromWs(r)
    \/ ChOutput
    \/ ChPause
    \/ ChPauseLock
    \/ ChResume
    \/ ChResumeUnlock
    \/ ChTitleDrain
    \/ ChBaudDrain

SpecNoConsumer == Init /\ [][NextNoConsumer]_vars /\ WF_vars(NextNoConsumer)

\* ------------------------------------------------------------------------
\* Properties of the escape multiplexer
\* ------------------------------------------------------------------------
\* The chunk of the iteration that has just been handled, and the position of
\* its first trigger byte.
Handled == mux.at = "send"
TriggerPos == Index(mux.chunk, EscapeChar)
TriggerBeforeLast ==
    Handled /\ ~mux.pending /\ TriggerPos >= 0 /\ TriggerPos < Len(mux.chunk) - 1

\* C5 (split-trigger equivalence): once `split` has read P + TRIGGER and then
\* CMD + S, and `whole` has read P + TRIGGER + CMD + S, both have forwarded the
\* same bytes, invoked the same command handlers in the same order, and are in
\* the same multiplexer state.
C5_SplitTriggerEquivalence ==
    (split.fed = 2 /\ whole.fed = 1) =>
        /\ Flatten(split.fwd) = Flatten(whole.fwd)
        /\ split.cmds = whole.cmds
        /\ split.quit = whole.quit
        /\ split.baud = whole.baud
        /\ split.expectingCommand = whole.expectingCommand
        /\ split.fault = whole.fault

\* C6 (command after the trigger): in Normal state, for a chunk whose first
\* trigger is before the last position, exactly one handler is invoked, for the
\* byte following the trigger, and the forwarded chunk is the input with the
\* (trigger, command) pair replaced by that handler's substitution; the chunk
\* "hi" + TRIGGER + 'q' forwards "hi" and raises the quit sentinel once.
C6_CommandAfterTrigger ==
    TriggerBeforeLast =>
        LET command == At(mux.chunk, TriggerPos + 1)
        IN  /\ mux.cmds = <<command>>
            /\ mux.out = << Slice(mux.chunk, 0, TriggerPos)
                            \o HandleCommand(command, wise).replacement
                            \o Slice(mux.chunk, TriggerPos + 2, Len(mux.chunk)) >>
            /\ mux.quit = HandleCommand(command, wise).quit
            /\ (mux.chunk = <<104, 105, EscapeChar, QuitChar>> =>
                    mux.out = << <<104, 105>> >> /\ mux.quit = 1)

\* C7 (literal trigger re-emission): in Normal state, for a chunk whose first
\* trigger is followed by 't', the forwarded chunk is the input with the
\* (trigger, 't') pair replaced by one trigger byte, no quit sentinel is raised
\* and no control frame is enqueued.
C7_LiteralTrigger ==
    (TriggerBeforeLast /\ At(mux.chunk, TriggerPos + 1) = CtrlTChar) =>
        /\ mux.out = << Slice(mux.chunk, 0, TriggerPos) \o <<EscapeChar>>
                        \o Slice(mux.chunk, TriggerPos + 2, Len(mux.chunk)) >>
        /\ mux.quit = 0
        /\ mux.baud = 0

\* C8 as stated (pass-through in every state): a chunk without trigger byte is
\* forwarded exactly as read and no command handler is invoked.
C8_PassThroughAnyState ==
    (Handled /\ TriggerPos = -1) =>
        /\ mux.out = <<mux.chunk>>
        /\ mux.cmds = <<>>

\* C8 amended (pass-through in Normal state): a chunk without trigger byte that
\* is read while no command is pending is forwarded exactly as read, no command
\* handler is invoked, and the multiplexer stays in Normal state.
C8_PassThroughNormal ==
    (Handled /\ ~mux.pending /\ TriggerPos = -1) =>
        /\ mux.out = <<mux.chunk>>
        /\ mux.cmds = <<>>
        /\ ~mux.fault
        /\ ~expectingCommand

\* C8: in Normal state the trigger-free chunk "h" + 'q' + "i" has been read and
\* forwarded unchanged.
C8_Witness ==
    /\ Handled
    /\ ~mux.pending
    /\ mux.chunk = <<104, QuitChar, 105>>
    /\ mux.out = << <<104, QuitChar, 105>> >>

\* ------------------------------------------------------------------------
\* Properties of the protocol engine
\* ------------------------------------------------------------------------
\* doShutdown is running in some goroutine, past its test of isShutdown.
ShuttingDown == \E p \in Procs : pc[p] \in {"dsClose", "dsGate", "dsUnlock"}

\* The ports of the engine (WinTitle, DetectedBaudrate, Output, Input, Error)
\* and its close signal (CloseChan), protocol.go:102-107.
Ports == {"closeChan", "winTitle", "detectedBaudrate", "output", "input", "error"}

\* C1 (gate safety): no frame that chanLoop writes to the transport, from the
\* control queue or from the input port, is written while the flow gate is
\* engaged.
C1_GateSafety == obs.lastWrite.kind # "none" => ~obs.lastWrite.engaged

\* C2 (soft shutdown is idempotent per epoch): whatever the interleaving of
\* the callers of doShutdown, the shutdown signal of an epoch is never closed a
\* second time and the error port receives at most one error per epoch.
C2_ShutdownOnce ==
    /\ panic # "close of closed channel: shutdown"
    /\ \A e \in 1..MaxEpochs : obs.errs[e] <= 1

\* C3 (gate disengaged after shutdown): in every state of a shut-down epoch in
\* which doShutdown is not in progress the flow gate is disengaged and nothing
\* holds the gate's lock for a server pause.
C3_GateDisengagedAfterShutdown ==
    (panic = "none" /\ c.isShutdown /\ ~ShuttingDown) =>
        /\ ~c.flowControlEngaged
        /\ c.flowControl # "gate"

\* C4 (drain-then-deliver): when the engine has read two window-title frames
\* and no consumer has received a title yet, the first title a consumer
\* receives is the second one.
C4_DrainThenDeliver ==
    [][ (Len(obs.titlesRead) = 2 /\ obs.titlesSeen = <<>> /\ obs.titlesSeen' # <<>>)
            => obs.titlesSeen'[1] = obs.titlesRead[2] ]_vars

\* C9 (hard close is idempotent and closes everything once): whenever a call of
\* Close has returned, after one call or after two, no close has faulted, the
\* Client is closed and shut down, and the close signal and every port have
\* been closed exactly once.
C9_CloseOnce ==
    (pc[Closer] = "idle" /\ env.closeCalls >= 1) =>
        /\ panic = "none" => c.closed /\ c.isShutdown
        /\ panic # "close of closed channel"
        /\ panic = "none" => \A ch \in Ports : c.closes[ch] = 1

\* ------------------------------------------------------------------------
\* Properties of the watchdog
\* ------------------------------------------------------------------------
\* The watchdog of run r has the ping interval 5 and has received no pong.
Unacknowledged(r) == loc.wd[r].interval = 5 /\ ~obs.acked[r]

\* Nothing but the watchdog of run r can have shut the epoch down: the
\* transport has not failed, Close has not been called, no other watchdog has
\* timed out.
NoOtherCause(r) ==
    /\ c.wsOpen
    /\ env.closeCalls = 0
    /\ \A q \in Runs \ {r} : obs.timeouts[q] = 0

WdWaiting(r) == pc[Wd(r)] \in {"loop", "select"}
WdAlive(r) == pc[Wd(r)] = "start" \/ WdWaiting(r)

\* C10 (watchdog liveness): a watchdog calls doShutdown with the
\* not-responding error at most once, and not before its first ping is due. A
\* watchdog with interval 5 that has received no pong does not wait beyond 11
\* seconds after its start; when nothing else shuts the epoch down it is
\* still waiting with the epoch live, or it has called doShutdown with the
\* not-responding error exactly once, 11 seconds after its start, and once it
\* has returned the epoch is shut down and the error port has delivered
\* exactly one error.
C10_WatchdogLiveness ==
    \A r \in Runs :
        /\ obs.timeouts[r] <= 1
        /\ obs.timeouts[r] = 1 => now >= obs.started[r] + PingDuration(r)
        /\ (Unacknowledged(r) /\ WdWaiting(r)) => now <= obs.started[r] + 11
        /\ (Unacknowledged(r) /\ NoOtherCause(r) /\ panic = "none") =>
               \/ WdAlive(r) /\ obs.timeouts[r] = 0 /\ ~c.isShutdown
               \/ /\ ~WdAlive(r)
                  /\ obs.timeouts[r] = 1
                  /\ now = obs.started[r] + 11
                  /\ pc[Wd(r)] = "done" => c.isShutdown /\ obs.errs[env.epoch] = 1

\* The watchdog of the first run, never acknowledged, has shut the epoch down
\* at 11 seconds and returned.
C10_Witness ==
    /\ Unacknowledged(1) /\ NoOtherCause(1)
    /\ pc[Wd(1)] = "done"
    /\ obs.timeouts[1] = 1
    /\ now = 11
    /\ obs.errs[1] = 1

\* ------------------------------------------------------------------------
\* Properties of the control operations, of Redial and of the workers
\* ------------------------------------------------------------------------
\* C11 (control operations return immediately): a control operation never
\* waits for chanLoop: there is no state in which a call is still in its send
\* on toWs while chanLoop is not at its select to take the frame (not started,
\* returned, or busy elsewhere).
C11_ControlOpsReturn ==
    (panic = "none" /\ env.toWsSend # <<>>) => pc[Chan] = "select"

\* C12 (one epoch at a time): Redial starts a new epoch only when the
\* previous epoch is shut down.
C12_RedialAfterShutdown ==
    [][ env.epoch' # env.epoch => c.isShutdown ]_vars

\* C13 (a closed Client cannot redial): once the Client is closed, no step
\* makes it not closed, starts a new epoch, reopens a transport that is closed,
\* or takes it out of the shut-down state; a Redial that is refused faults on
\* nothing.
C13_ClosedNeverRedials ==
    [][ c.closed =>
            /\ c'.closed
            /\ env.epoch' = env.epoch
            /\ (~c.wsOpen => ~c'.wsOpen)
            /\ (c.isShutdown => c'.isShutdown)
            /\ (env.refused' # env.refused => (c' = c /\ panic' = panic /\ pc' = pc)) ]_vars

\* C13: Close has returned and a later Redial has been refused, the Client
\* still closed and shut down, its transport closed.
C13_Witness ==
    /\ c.closed /\ c.isShutdown /\ ~c.wsOpen
    /\ pc[Closer] = "idle"
    /\ env.refused = 1
    /\ env.epoch = 1
    /\ panic = "none"

\* C16 (shutdown propagates to all workers): once the epoch is shut down, the
\* Client not closed, and chanLoop, the watchdogs and every caller of
\* doShutdown have returned, no reader is left in a send that only they could
\* receive (a frame on fromWs, a pong on c.pong).
C16_NoWorkerLeftBlocked ==
    ( /\ panic = "none"
      /\ c.isShutdown /\ ~c.closed
      /\ pc[Chan] = "done"
      /\ pc[Closer] = "idle"
      /\ \A r \in Runs : pc[Wd(r)] \in {"idle", "done"} )
        => \A r \in Runs : pc[Rd(r)] \notin {"send", "pong"}

\* C17 (pause then resume never deadlocks): chanLoop, the only goroutine that
\* handles the server-resume frame, never waits for the lock of the flow gate
\* while a server pause holds it.
C17_NoSelfDeadlock ==
    (panic = "none" /\ pc[Chan] = "wLock") => c.flowControl # "gate"

\* C18 (flag and lock agree): no step unlocks the unlocked flowControl, and
\* outside the two-statement sequences that set the flag and move the lock
\* (chanLoop's pause and resume cases, doShutdown), flowControlEngaged is true
\* exactly when the lock is held for a server pause.
C18_FlagLockAgree ==
    /\ panic # "unlock of unlocked mutex"
    /\ (panic = "none" /\ pc[Chan] \notin {"pauseLock", "resumeUnlock"} /\ ~ShuttingDown)
           => (c.flowControlEngaged <=> c.flowControl = "gate")

\* C19 (no send on a closed channel): no goroutine sends, or is blocked in a
\* send, on a channel that Close closes.
C19_NoSendOnClosed == panic # "send on closed channel"

\* ------------------------------------------------------------------------
\* Properties of the escape multiplexer in PendingCommand state
\* ------------------------------------------------------------------------
\* The chunk of an iteration entered in PendingCommand state, after the
\* pending command has been spliced, and the position of its first trigger.
Spliced ==
    HandleCommand(At(mux.chunk, 0), wise).replacement
        \o Slice(mux.chunk, 1, Len(mux.chunk))
SplicedTriggerPos == Index(Spliced, EscapeChar)

\* C15 (the trigger scan applies to the spliced chunk): after a chunk has been
\* handled in PendingCommand state, its first byte has been handled as the
\* command, and a trigger of the spliced chunk has been recognised at its
\* position there: PendingCommand is entered exactly when the trigger is the
\* last byte, and when it is before the last, exactly one more handler has
\* been invoked, for the byte that follows it.
C15_ScanAfterSplice ==
    (Handled /\ mux.pending) =>
        /\ ~mux.fault
        /\ expectingCommand <=> (SplicedTriggerPos >= 0
                                   /\ SplicedTriggerPos = Len(Spliced) - 1)
        /\ mux.cmds =
              IF SplicedTriggerPos >= 0 /\ SplicedTriggerPos < Len(Spliced) - 1
              THEN <<At(mux.chunk, 0), At(Spliced, SplicedTriggerPos + 1)>>
              ELSE <<At(mux.chunk, 0)>>

\* C20 (no out-of-range position): no iteration of handleStdin, in either
\* state, indexes or slices its chunk out of range.
C20_NoFault == ~mux.fault

\* ------------------------------------------------------------------------
\* Properties of the engine without title and baudrate consumers
\* ------------------------------------------------------------------------
\* C14 (an absent consumer does not stall chanLoop): with nobody receiving
\* from WinTitle and DetectedBaudrate, chanLoop, once it has dispatched a
\* window-title or detected-baudrate frame, eventually is back at the head of
\* its loop to process later events.
C14_NoStall ==
    (pc[Chan] \in {"titleDrain", "baudDrain"}) ~> (pc[Chan] = "loop")
====
